---- MODULE Spec2Model ----
(***************************************************************************)
(* Hache: persistent memoization of function return values.               *)
(*                                                                         *)
(* The model follows src/hache/hache.py.  The SQLite file holds the table  *)
(* Hashes (function name -> descriptionHash) and one table per function    *)
(* name (hashKey -> result BLOB).  A wrapper produced by the decorator     *)
(* owns an OrderedDict cache; the first entry of the OrderedDict is the    *)
(* least recently used one.                                                *)
(*                                                                         *)
(* md5 is modelled as an injective tagging of its input text.  The order   *)
(* of the rows returned by a SELECT without ORDER BY is not fixed by SQL   *)
(* and is drawn nondeterministically.                                      *)
(***************************************************************************)
EXTENDS Integers, Sequences, FiniteSets, TLC

\* Arguments passed to the wrapped functions are the integers 1..MaxArg.
MaxArg == 4

\* Arguments of the calls when two wrappers share one function name.
MaxSharedArg == 3

\* Calls by keyword pass x in 1..MaxKwArg and y = 0.
MaxKwArg == 2

Args == 1..MaxArg

None == "None"

\* Handles of the wrappers alive in a process; MainHandles are the ones the
\* single-function specifications use.
Handles == {"w1", "w2"}

MainHandles == {"w1"}

-----------------------------------------------------------------------------
(* The decorated functions.  A function is its definition text: the        *)
(* decorator line @hache(blob_type, max_size), the def line with the name, *)
(* the docstring and the body.  inspect.getsource returns all of these.    *)

Funcs ==
  { [name |-> "f", body |-> "x * x", doc |-> None,
     blob_type |-> "int", max_size |-> 2],
    [name |-> "f", body |-> "x + x", doc |-> "doubles x",
     blob_type |-> "ndarray", max_size |-> 1],
    [name |-> "f", body |-> "x + x", doc |-> "returns twice x",
     blob_type |-> "ndarray", max_size |-> 1],
    [name |-> "f", body |-> "12 // (x - 1)", doc |-> None,
     blob_type |-> "int", max_size |-> 1] }

NoFunc == [name |-> None, body |-> None, doc |-> None,
           blob_type |-> None, max_size |-> 0]

\* Text that stands for a function whose source inspect cannot find.
NoSource == "<no source>"

\* Further decorated functions: one whose results are lists for x > 2 (a
\* list cannot be bound to a BLOB column), one declared with a value kind
\* the BLOB conversion has no case for, and one without retrievable source.
FaultFuncs ==
  { [name |-> "f", body |-> "[x] if x > 2 else x", doc |-> None,
     blob_type |-> "int", max_size |-> 2],
    [name |-> "f", body |-> "{x: x}", doc |-> None,
     blob_type |-> "dict", max_size |-> 1],
    [name |-> "f", body |-> NoSource, doc |-> None,
     blob_type |-> "int", max_size |-> 1] }

\* The value kinds the BLOB conversion has a case for.
SupportedKinds == {"int", "ndarray"}

Names == {f.name : f \in Funcs}

\* The square function of the end-to-end example, attached at capacity 2.
Square == [name |-> "f", body |-> "x * x", doc |-> None,
           blob_type |-> "int", max_size |-> 2]

\* Python values: an object holding a number, or the bytes np.save wrote.
Obj(n) == [t |-> "obj", v |-> n]

NoValue == [t |-> None, v |-> 0]

\* func(*args, **kwargs): the body evaluated on the single positional argument.
Func(f, args) ==
  LET x == args[1] IN
  CASE f.body = "x * x" -> [raised |-> FALSE, exc |-> None, val |-> Obj(x * x)]
    [] f.body = "x + x" -> [raised |-> FALSE, exc |-> None, val |-> Obj(x + x)]
    [] f.body = "[x] if x > 2 else x" ->
         [raised |-> FALSE, exc |-> None,
          val |-> IF x > 2 THEN [t |-> "list", v |-> x] ELSE Obj(x)]
    [] f.body = "{x: x}" ->
         [raised |-> FALSE, exc |-> None, val |-> [t |-> "dict", v |-> x]]
    [] OTHER ->
         IF x = 1
         THEN [raised |-> TRUE, exc |-> "ZeroDivisionError", val |-> NoValue]
         ELSE [raised |-> FALSE, exc |-> None, val |-> Obj(12 \div (x - 1))]

-----------------------------------------------------------------------------
(* BLOB conversion *)

to_blob(result, blob_type) ==
  IF blob_type = "ndarray"
  THEN [t |-> "npy", v |-> result.v]
  ELSE result

\* Whether sqlite3 can bind the value as the parameter of an INSERT: numbers
\* and bytes can be bound, lists and dicts cannot.
Bindable(blob) == blob.t \in {"obj", "npy"}

\* np.load raises on anything that is not a saved array.
from_blob_raises(blob, blob_type) ==
  blob_type = "ndarray" /\ blob.t # "npy"

\* Variant: the saved array is handed back undecoded.
from_blob_undecoded(blob, blob_type) == blob

from_blob(blob, blob_type) ==
  IF blob_type = "ndarray"
  THEN [t |-> "obj", v |-> blob.v]
  ELSE blob

-----------------------------------------------------------------------------
(* Hashing *)

Md5(text) == <<"md5", text>>

\* inspect.getsource(func): decorator line, def line, docstring, body.
GetSource(f) == <<"@hache", f.blob_type, f.max_size, "def", f.name, f.doc, f.body>>

\* Variant: a failure of inspect.getsource is swallowed.
GetSourceRaises_never(f) == FALSE

\* inspect.getsource raises OSError when the source cannot be retrieved.
GetSourceRaises(f) == f.body = NoSource

\* current_hash of function_setup: source text, plus the docstring if any.
CurrentHash(f) ==
  LET source_plus_desc ==
        IF f.doc # None THEN GetSource(f) \o <<f.doc>> ELSE GetSource(f)
  IN Md5(source_plus_desc)

\* hash_key of wrapper: md5 of str(args) + str(kwargs).
HashKey(args, kwargs) == Md5(<<args, kwargs>>)

NoHash == <<>>

-----------------------------------------------------------------------------
(* The database: db.hashes is the Hashes table, db.tables the per-function *)
(* tables; a table is absent (exists = FALSE) or holds rows hashKey->BLOB. *)

EmptyRows == [k \in {} |-> NoValue]

NoTable == [exists |-> FALSE, rows |-> EmptyRows]

EmptyTable == [exists |-> TRUE, rows |-> EmptyRows]

\* initialize_db on a fresh file: Hashes exists and is empty.
InitialDb == [hashes |-> [n \in Names |-> NoHash],
              tables |-> [n \in Names |-> NoTable]]

\* Variant: a changed hash is recorded but the old rows are kept.
FunctionSetupPrefix_keepRows(db, f, n) ==
  IF n >= 2 THEN [db EXCEPT !.hashes[f.name] = CurrentHash(f),
                            !.tables[f.name].exists = TRUE]
  ELSE db

\* The database after the first n statements of function_setup that change
\* it have run.  DDL statements (CREATE, DROP) are committed as they run;
\* the INSERT or UPDATE of Hashes is committed when the with block exits.
FunctionSetupPrefix(db, f, n) ==
  LET name == f.name
      current_hash == CurrentHash(f)
      stored_hash == db.hashes[name]
  IN
  IF stored_hash = NoHash
  THEN LET d1 == IF n >= 1 /\ ~db.tables[name].exists
                 THEN [db EXCEPT !.tables[name] = EmptyTable]
                 ELSE db
       IN IF n >= 2 THEN [d1 EXCEPT !.hashes[name] = current_hash] ELSE d1
  ELSE IF stored_hash # current_hash
       THEN LET d1 == IF n >= 1 THEN [db EXCEPT !.tables[name] = NoTable] ELSE db
                d2 == IF n >= 2 THEN [d1 EXCEPT !.tables[name] = EmptyTable] ELSE d1
            IN IF n >= 3 THEN [d2 EXCEPT !.hashes[name] = current_hash] ELSE d2
       ELSE db

\* function_setup run to completion: all (at most three) statements.
function_setup(db, f) == FunctionSetupPrefix(db, f, 3)

\* Variant: the loop skips the first (least recently used) cache entry.
UpsertAll_skipFirst(rows, cache, blob_type) ==
  LET keys == {cache[i].key : i \in 2..Len(cache)}
      ValueOf(k) == (CHOOSE i \in 2..Len(cache) : cache[i].key = k)
  IN [k \in (DOMAIN rows) \cup keys |->
        IF k \in keys THEN to_blob(cache[ValueOf(k)].val, blob_type) ELSE rows[k]]

\* Variant: the table is rewritten to hold the cache entries only.
UpsertAll_replace(rows, cache, blob_type) ==
  LET keys == {cache[i].key : i \in 1..Len(cache)}
      ValueOf(k) == (CHOOSE i \in 1..Len(cache) : cache[i].key = k)
  IN [k \in keys |-> to_blob(cache[ValueOf(k)].val, blob_type)]

\* INSERT OR REPLACE of every cache entry into the function's table.
UpsertAll(rows, cache, blob_type) ==
  LET keys == {cache[i].key : i \in 1..Len(cache)}
      ValueOf(k) == (CHOOSE i \in 1..Len(cache) : cache[i].key = k)
  IN [k \in (DOMAIN rows) \cup keys |->
        IF k \in keys THEN to_blob(cache[ValueOf(k)].val, blob_type) ELSE rows[k]]

\* Index of the first cache entry whose INSERT raises, 0 if none does.
FirstFailure(cache, blob_type) ==
  LET bad == {i \in 1..Len(cache) : ~Bindable(to_blob(cache[i].val, blob_type))}
  IN IF bad = {} THEN 0 ELSE CHOOSE i \in bad : \A j \in bad : i <= j

\* Variant: every INSERT is committed as it runs.
WithConnRows_noRollback(rows, cache, blob_type) ==
  LET i == FirstFailure(cache, blob_type)
  IN IF i = 0 THEN UpsertAll(rows, cache, blob_type)
     ELSE UpsertAll(rows, SubSeq(cache, 1, i - 1), blob_type)

\* The rows after the with block of save_cache_with_hash: the INSERTs run
\* in one transaction, committed at the end, rolled back when one raises.
WithConnRows(rows, cache, blob_type) ==
  LET i == FirstFailure(cache, blob_type)
  IN IF i = 0 THEN UpsertAll(rows, cache, blob_type)
     ELSE rows

save_raises(cache, blob_type) == FirstFailure(cache, blob_type) # 0

\* Variant: the cache is written without reconciling the fingerprint first.
save_cache_with_hash_noSetup(db, f, cache, blob_type) ==
  [db EXCEPT !.tables[f.name].rows = WithConnRows(@, cache, blob_type)]

save_cache_with_hash(db, f, cache, blob_type) ==
  LET d1 == function_setup(db, f)
  IN [d1 EXCEPT !.tables[f.name].rows = WithConnRows(@, cache, blob_type)]

\* The number of times save_cache_with_hash tries to open the database.
SaveAttempts == 1

-----------------------------------------------------------------------------
(* OrderedDict operations used by the wrapper *)

Keys(cache) == {cache[i].key : i \in 1..Len(cache)}

IndexOf(cache, k) == CHOOSE i \in 1..Len(cache) : cache[i].key = k

Lookup(cache, k) == cache[IndexOf(cache, k)].val

Without(cache, i) == [j \in 1..(Len(cache) - 1) |->
                        IF j < i THEN cache[j] ELSE cache[j + 1]]

\* Variant: move_to_end(key, last=False), the entry becomes the oldest.
move_to_front(cache, k) ==
  LET i == IndexOf(cache, k) IN <<cache[i]>> \o Without(cache, i)

move_to_end(cache, k) ==
  LET i == IndexOf(cache, k) IN Append(Without(cache, i), cache[i])

\* The value bound to the parameter x by a call: the first positional
\* argument, or the keyword argument named x.
Bind(args, kwargs) ==
  IF args # <<>> THEN args
  ELSE <<kwargs[CHOOSE i \in 1..Len(kwargs) : kwargs[i][1] = "x"][2]>>

\* Variant: popitem(last=True), the most recently used entry is dropped.
popitem_last(cache) == SubSeq(cache, 1, Len(cache) - 1)

\* popitem(last=False): drop the first (least recently used) entry.
popitem_first(cache) == Tail(cache)

\* Variant: the function is called before the cache is consulted.
wrapper_callFirst(cache, f, args, kwargs) ==
  LET hash_key == HashKey(args, kwargs)
      result == Func(f, Bind(args, kwargs))
  IN
  IF result.raised
  THEN [cache |-> cache, outcome |-> "raise",
        ret |-> NoValue, exc |-> result.exc, invoked |-> TRUE]
  ELSE IF hash_key \in Keys(cache)
  THEN [cache |-> move_to_end(cache, hash_key), outcome |-> "hit",
        ret |-> Lookup(cache, hash_key), exc |-> None, invoked |-> TRUE]
  ELSE LET c1 == IF Len(cache) >= f.max_size
                 THEN popitem_first(cache) ELSE cache
       IN [cache |-> Append(c1, [key |-> hash_key, val |-> result.val]),
           outcome |-> "miss", ret |-> result.val, exc |-> None,
           invoked |-> TRUE]

\* Variant: a hit does not move the entry to the end.
wrapper_noMove(cache, f, args, kwargs) ==
  LET hash_key == HashKey(args, kwargs) IN
  IF hash_key \in Keys(cache)
  THEN [cache |-> cache, outcome |-> "hit",
        ret |-> Lookup(cache, hash_key), exc |-> None, invoked |-> FALSE]
  ELSE LET result == Func(f, Bind(args, kwargs)) IN
       IF result.raised
       THEN [cache |-> cache, outcome |-> "raise",
             ret |-> NoValue, exc |-> result.exc, invoked |-> TRUE]
       ELSE LET c1 == IF Len(cache) >= f.max_size
                      THEN popitem_first(cache) ELSE cache
            IN [cache |-> Append(c1, [key |-> hash_key, val |-> result.val]),
                outcome |-> "miss", ret |-> result.val, exc |-> None,
                invoked |-> TRUE]

\* Variant: the eviction test is len(cache) > max_size.
wrapper_offByOne(cache, f, args, kwargs) ==
  LET hash_key == HashKey(args, kwargs) IN
  IF hash_key \in Keys(cache)
  THEN [cache |-> move_to_end(cache, hash_key), outcome |-> "hit",
        ret |-> Lookup(cache, hash_key), exc |-> None, invoked |-> FALSE]
  ELSE LET result == Func(f, Bind(args, kwargs)) IN
       IF result.raised
       THEN [cache |-> cache, outcome |-> "raise",
             ret |-> NoValue, exc |-> result.exc, invoked |-> TRUE]
       ELSE LET c1 == IF Len(cache) > f.max_size
                      THEN popitem_first(cache) ELSE cache
            IN [cache |-> Append(c1, [key |-> hash_key, val |-> result.val]),
                outcome |-> "miss", ret |-> result.val, exc |-> None,
                invoked |-> TRUE]

\* Variant: room is made in the cache before the function is called.
wrapper_evictBeforeCall(cache, f, args, kwargs) ==
  LET hash_key == HashKey(args, kwargs) IN
  IF hash_key \in Keys(cache)
  THEN [cache |-> move_to_end(cache, hash_key), outcome |-> "hit",
        ret |-> Lookup(cache, hash_key), exc |-> None, invoked |-> FALSE]
  ELSE LET c1 == IF Len(cache) >= f.max_size
                 THEN popitem_first(cache) ELSE cache
           result == Func(f, Bind(args, kwargs))
       IN IF result.raised
          THEN [cache |-> c1, outcome |-> "raise",
                ret |-> NoValue, exc |-> result.exc, invoked |-> TRUE]
          ELSE [cache |-> Append(c1, [key |-> hash_key, val |-> result.val]),
                outcome |-> "miss", ret |-> result.val, exc |-> None,
                invoked |-> TRUE]

\* The body of wrapper(*args, **kwargs).
wrapper(cache, f, args, kwargs) ==
  LET hash_key == HashKey(args, kwargs) IN
  IF hash_key \in Keys(cache)
  THEN [cache |-> move_to_end(cache, hash_key), outcome |-> "hit",
        ret |-> Lookup(cache, hash_key), exc |-> None, invoked |-> FALSE]
  ELSE LET result == Func(f, Bind(args, kwargs)) IN
       IF result.raised
       THEN [cache |-> cache, outcome |-> "raise",
             ret |-> NoValue, exc |-> result.exc, invoked |-> TRUE]
       ELSE LET c1 == IF Len(cache) >= f.max_size
                      THEN popitem_first(cache) ELSE cache
            IN [cache |-> Append(c1, [key |-> hash_key, val |-> result.val]),
                outcome |-> "miss", ret |-> result.val, exc |-> None,
                invoked |-> TRUE]

\* The orders in which fetchall may return the rows with the keys S.
Orderings(S) ==
  {s \in [1..Cardinality(S) -> S] : \A i, j \in DOMAIN s : i # j => s[i] # s[j]}

\* The OrderedDict load_cache_with_hash builds from the rows in the order ks.
LoadedCache(rows, ks, blob_type) ==
  [i \in 1..Len(ks) |-> [key |-> ks[i], val |-> from_blob(rows[ks[i]], blob_type)]]

-----------------------------------------------------------------------------
(* State *)

VARIABLES
  db,       \* the SQLite file: Hashes and the per-function tables
  w,        \* per handle: the wrapper (decorated function and its cache)
  last,     \* the operation performed last and what its caller observed
  prevDb,   \* the SQLite file as it was before the last operation
  missRun,  \* keys of the current run of consecutive inserting misses
  scen,     \* progress along the end-to-end example, -1 once left
  track,    \* whether prev and untouched are being recorded
  prev,     \* the operation performed before the last one (when recorded)
  untouched \* keys loaded at attach and not accessed since, in load order

vars == <<db, w, last, prevDb, missRun, scen, track, prev, untouched>>

Detached == [attached |-> FALSE, func |-> NoFunc, cache |-> <<>>]

Event(op, h, f, arg, outcome, ret, exc, invoked) ==
  [op |-> op, h |-> h, func |-> f, arg |-> arg, outcome |-> outcome,
   ret |-> ret, exc |-> exc, invoked |-> invoked]

\* The calls of the end-to-end example: square(2), (3), (4), (2), (3).
ScenArgs == <<2, 3, 4, 2, 3>>

ScenNext ==
  IF scen = 0 /\ last'.op = "attach" /\ last'.outcome = "ok" /\ last'.func = Square
    THEN 1
  ELSE IF scen \in 1..5 /\ last'.op = "call" /\ last'.arg = ScenArgs[scen]
    THEN scen + 1
  ELSE IF scen = 6 /\ last'.op = "exit"
    THEN 7
  ELSE IF scen = 7 /\ last'.op = "attach" /\ last'.outcome = "ok" /\ last'.func = Square
    THEN 8
  ELSE IF scen = 8 /\ last'.op = "call" /\ last'.arg = 4
    THEN 9
  ELSE -1

\* A miss that inserts extends the run (kept to the last max_size + 1 keys);
\* a flush leaves it; anything else ends it.
MissRunNext ==
  IF last'.op = "call" /\ last'.outcome = "miss"
  THEN LET r == Append(missRun, HashKey(<<last'.arg>>, <<>>))
       IN IF Len(r) > last'.func.max_size + 1 THEN Tail(r) ELSE r
  ELSE IF last'.op = "flush" THEN missRun
  ELSE <<>>

\* A loaded key stays untouched until a call hits it or it is evicted.
UntouchedNext ==
  IF ~track THEN <<>>
  ELSE IF last'.op = "attach"
  THEN IF last'.outcome = "ok"
       THEN [i \in 1..Len(w'[last'.h].cache) |-> w'[last'.h].cache[i].key]
       ELSE <<>>
  ELSE IF last'.op = "call"
  THEN LET Still(k) == /\ k \in Keys(w'[last'.h].cache)
                       /\ ~(last'.outcome = "hit" /\ k = HashKey(<<last'.arg>>, <<>>))
       IN SelectSeq(untouched, Still)
  ELSE IF last'.op = "exit" THEN <<>>
  ELSE untouched

Observe == /\ prevDb' = db
           /\ missRun' = MissRunNext
           /\ scen' = ScenNext
           /\ track' = track
           /\ prev' = IF track THEN last ELSE prev
           /\ untouched' = UntouchedNext

Init ==
  /\ db = InitialDb
  /\ w = [h \in Handles |-> Detached]
  /\ last = Event("init", None, NoFunc, 0, "ok", NoValue, None, FALSE)
  /\ prevDb = InitialDb
  /\ missRun = <<>>
  /\ scen = 0
  /\ track = FALSE
  /\ prev = last
  /\ untouched = <<>>

\* The same initial state, with the recording of prev and untouched on.
InitTracked ==
  /\ db = InitialDb
  /\ w = [h \in Handles |-> Detached]
  /\ last = Event("init", None, NoFunc, 0, "ok", NoValue, None, FALSE)
  /\ prevDb = InitialDb
  /\ missRun = <<>>
  /\ scen = 0
  /\ track = TRUE
  /\ prev = last
  /\ untouched = <<>>

-----------------------------------------------------------------------------
(* Operations *)

\* decorator(func): load_cache_with_hash, then the wrapper is returned.  The
\* load raises, and no wrapper is made, when the function's table is absent
\* or a row cannot be decoded.
Attach(h, f) ==
  /\ ~w[h].attached
  /\ LET d1 == function_setup(db, f)
         tbl == d1.tables[f.name]
     IN IF GetSourceRaises(f)
        THEN /\ db' = db
             /\ w' = w
             /\ last' = Event("attach", h, f, 0, "error", NoValue, "OSError", FALSE)
        ELSE
        /\ db' = d1
        /\ IF \/ ~tbl.exists
              \/ \E k \in DOMAIN tbl.rows : from_blob_raises(tbl.rows[k], f.blob_type)
           THEN /\ w' = w
                /\ last' = Event("attach", h, f, 0, "error", NoValue,
                                 IF tbl.exists THEN "TypeError" ELSE "OperationalError",
                                 FALSE)
           ELSE \E ks \in Orderings(DOMAIN tbl.rows) :
                  /\ w' = [w EXCEPT ![h] =
                             [attached |-> TRUE, func |-> f,
                              cache |-> LoadedCache(tbl.rows, ks, f.blob_type)]]
                  /\ last' = Event("attach", h, f, 0, "ok", NoValue, None, FALSE)
  /\ Observe

\* A call of the wrapper with the positional argument x.
Call(h, x) ==
  /\ w[h].attached
  /\ LET r == wrapper(w[h].cache, w[h].func, <<x>>, <<>>)
     IN /\ w' = [w EXCEPT ![h].cache = r.cache]
        /\ last' = Event("call", h, w[h].func, x, r.outcome, r.ret, r.exc, r.invoked)
  /\ db' = db
  /\ Observe

\* Variant: the cache is discarded once it has been written.
Flush_discards(h) ==
  /\ w[h].attached
  /\ db' = save_cache_with_hash(db, w[h].func, w[h].cache, w[h].func.blob_type)
  /\ w' = [w EXCEPT ![h].cache = <<>>]
  /\ last' = IF save_raises(w[h].cache, w[h].func.blob_type)
             THEN Event("flush", h, w[h].func, 0, "error", NoValue,
                        "ProgrammingError", FALSE)
             ELSE Event("flush", h, w[h].func, 0, "ok", NoValue, None, FALSE)
  /\ Observe

\* save_cache_with_hash(wrapper, blob_type) called while the process runs.
Flush(h) ==
  /\ w[h].attached
  /\ db' = save_cache_with_hash(db, w[h].func, w[h].cache, w[h].func.blob_type)
  /\ w' = w
  /\ last' = IF save_raises(w[h].cache, w[h].func.blob_type)
             THEN Event("flush", h, w[h].func, 0, "error", NoValue,
                        "ProgrammingError", FALSE)
             ELSE Event("flush", h, w[h].func, 0, "ok", NoValue, None, FALSE)
  /\ Observe

\* The process ends: the atexit hook saves the cache.  The wrapper's last
\* cache is kept in w[h] for reference, marked as no longer attached.
Exit(h) ==
  /\ w[h].attached
  /\ db' = save_cache_with_hash(db, w[h].func, w[h].cache, w[h].func.blob_type)
  /\ w' = [w EXCEPT ![h].attached = FALSE]
  /\ last' = IF save_raises(w[h].cache, w[h].func.blob_type)
             THEN Event("exit", h, w[h].func, 0, "error", NoValue,
                        "ProgrammingError", FALSE)
             ELSE Event("exit", h, w[h].func, 0, "ok", NoValue, None, FALSE)
  /\ Observe

\* The process is interrupted inside function_setup of an attach, after n of
\* its statements have run.
Interrupt(h, f, n) ==
  /\ ~w[h].attached
  /\ db' = FunctionSetupPrefix(db, f, n)
  /\ w' = w
  /\ last' = Event("interrupt", h, f, n, "error", NoValue, "KeyboardInterrupt", FALSE)
  /\ Observe

\* The keyword arguments x = a, y = 0 in the two orders they can be written.
KwOrders(a) == { <<(<<"x", a>>), (<<"y", 0>>)>>, <<(<<"y", 0>>), (<<"x", a>>)>> }

\* A call of the wrapper with keyword arguments only, written in the order kw.
CallKw(h, kw) ==
  /\ w[h].attached
  /\ LET r == wrapper(w[h].cache, w[h].func, <<>>, kw)
     IN /\ w' = [w EXCEPT ![h].cache = r.cache]
        /\ last' = Event("callkw", h, w[h].func, Bind(<<>>, kw)[1],
                         r.outcome, r.ret, r.exc, r.invoked)
  /\ db' = db
  /\ Observe

\* save_cache_with_hash(wrapper, blob_type) while the database cannot be
\* opened for the next n attempts: sqlite3 raises OperationalError.
FlushUnavailable(h, n) ==
  /\ w[h].attached
  /\ IF n < SaveAttempts
     THEN /\ db' = save_cache_with_hash(db, w[h].func, w[h].cache, w[h].func.blob_type)
          /\ last' = IF save_raises(w[h].cache, w[h].func.blob_type)
                     THEN Event("flush", h, w[h].func, n, "error", NoValue,
                                "ProgrammingError", FALSE)
                     ELSE Event("flush", h, w[h].func, n, "ok", NoValue, None, FALSE)
     ELSE /\ db' = db
          /\ last' = Event("flush", h, w[h].func, n, "error", NoValue,
                           "OperationalError", FALSE)
  /\ w' = w
  /\ Observe

AttachAny == \E h \in MainHandles, f \in Funcs : Attach(h, f)

CallAny == \E h \in MainHandles, x \in Args : Call(h, x)

FlushAny == \E h \in MainHandles : Flush(h)

ExitAny == \E h \in MainHandles : Exit(h)

InterruptAny == \E h \in MainHandles, f \in Funcs, n \in 0..2 : Interrupt(h, f, n)

Next == AttachAny \/ CallAny \/ FlushAny \/ ExitAny

Spec == Init /\ [][Next]_vars

NextCrash == AttachAny \/ CallAny \/ FlushAny \/ ExitAny \/ InterruptAny

SpecCrash == Init /\ [][NextCrash]_vars

AttachFault == \E h \in MainHandles, f \in FaultFuncs \cup {Square} : Attach(h, f)

FlushUnavailableAny == \E h \in MainHandles, n \in 1..2 : FlushUnavailable(h, n)

NextFaults == AttachFault \/ CallAny \/ FlushAny \/ ExitAny \/ FlushUnavailableAny

SpecFaults == Init /\ [][NextFaults]_vars

AttachSquare == \E h \in MainHandles : Attach(h, Square)

CallKwAny == \E h \in MainHandles, a \in 1..MaxKwArg :
               \E kw \in KwOrders(a) : CallKw(h, kw)

NextKw == AttachSquare \/ CallKwAny \/ FlushAny \/ ExitAny

SpecKw == Init /\ [][NextKw]_vars

\* Two functions with one name and different definitions, decorated in the
\* same process; each wrapper is decorated once and flushed any number of
\* times (by hand, or by its atexit hook).
SharedFuncs ==
  { Square,
    [name |-> "f", body |-> "x + x", doc |-> "doubles x",
     blob_type |-> "ndarray", max_size |-> 1] }

AttachShared == \E h \in Handles, f \in SharedFuncs : Attach(h, f)

CallShared == \E h \in Handles, x \in 1..MaxSharedArg : Call(h, x)

FlushShared == \E h \in Handles : Flush(h)

NextShared == AttachShared \/ CallShared \/ FlushShared

SpecShared == Init /\ [][NextShared]_vars

SpecTracked == InitTracked /\ [][Next]_vars

-----------------------------------------------------------------------------
(* Properties *)

KeyOf(x) == HashKey(<<x>>, <<>>)

Entries(cache) == {cache[i] : i \in 1..Len(cache)}

\* C1: in every reachable state the in-memory cache of an attached wrapper
\* holds at most max_size entries.
C1_CacheWithinMaxSize ==
  \A h \in Handles : w[h].attached => Len(w[h].cache) <= w[h].func.max_size

\* C2: every memoized call with argument a ends as f(a) does: it returns the
\* value f(a), or raises what f(a) raises.
C2_CallReturnsFunctionValue ==
  last.op = "call" =>
    LET r == Func(last.func, <<last.arg>>) IN
    IF r.raised
    THEN last.outcome = "raise" /\ last.exc = r.exc
    ELSE last.outcome \in {"hit", "miss"} /\ last.ret = r.val

\* A hit on an entry of an array-valued function that is also persisted.
C2_Witness ==
  /\ last.op = "call" /\ last.outcome = "hit"
  /\ last.func.blob_type = "ndarray"
  /\ KeyOf(last.arg) \in DOMAIN db.tables[last.func.name].rows

\* C3: a call whose key is in the cache returns the cached value and does
\* not invoke the wrapped function.
C3_HitDoesNotInvoke ==
  [][\A h \in Handles, x \in Args :
       (/\ w[h].attached
        /\ KeyOf(x) \in Keys(w[h].cache)
        /\ last'.op = "call" /\ last'.h = h /\ last'.arg = x)
       => (/\ ~last'.invoked
           /\ last'.outcome = "hit"
           /\ last'.ret = Lookup(w[h].cache, KeyOf(x)))]_vars

C3_Witness ==
  last.op = "call" /\ last.outcome = "hit" /\ ~last.invoked

\* C4: when a wrapper was flushed at exit and the next attach computes the
\* same fingerprint, the attach succeeds and every (key, value) entry of the
\* flushed cache is in the new cache.
C4_RoundTrip ==
  [][\A h \in Handles :
       (/\ last'.op = "attach" /\ last'.h = h
        /\ ~w[h].attached /\ w[h].func # NoFunc
        /\ last.op = "exit"
        /\ CurrentHash(w[h].func) = CurrentHash(last'.func))
       => (/\ w'[h].attached
           /\ Entries(w[h].cache) \subseteq Entries(w'[h].cache))]_vars

\* An attach that follows an exit and loads at least two entries.
C4_Witness ==
  /\ last.op = "attach" /\ last.outcome = "ok"
  /\ Len(w[last.h].cache) >= 2
  /\ prevDb.hashes[last.func.name] = CurrentHash(last.func)

\* C5: an attach that finds a stored fingerprint different from the current
\* one leaves the function's table empty, the new cache empty and the new
\* fingerprint stored.
C5_ChangedFingerprintInvalidates ==
  (/\ last.op = "attach"
   /\ prevDb.hashes[last.func.name] # NoHash
   /\ prevDb.hashes[last.func.name] # CurrentHash(last.func))
  => (/\ db.tables[last.func.name] = EmptyTable
      /\ w[last.h].attached
      /\ w[last.h].cache = <<>>
      /\ db.hashes[last.func.name] = CurrentHash(last.func))

\* Only the description changed, and rows were persisted under the old one.
C5_Witness ==
  /\ last.op = "attach"
  /\ last.func.doc = "returns twice x"
  /\ prevDb.hashes[last.func.name] =
       CurrentHash([last.func EXCEPT !.doc = "doubles x"])
  /\ DOMAIN prevDb.tables[last.func.name].rows # {}

\* C6: after max_size + 1 consecutive inserting misses on distinct keys, the
\* first of these keys is absent from the cache and the others are present.
C6_FirstOfRunEvicted ==
  (missRun # <<>> /\ Len(missRun) = last.func.max_size + 1)
  => (/\ missRun[1] \notin Keys(w[last.h].cache)
      /\ \A i \in 2..Len(missRun) : missRun[i] \in Keys(w[last.h].cache))

\* C7 as stated: in the example the third call evicts the entry for 2, the
\* fourth call is a miss, and the fifth call square(3) is a hit returning 9
\* without invoking the function.
C7_FifthCallIsHit ==
  /\ scen = 4 => KeyOf(2) \notin Keys(w[last.h].cache)
  /\ scen = 5 => (last.outcome = "miss" /\ last.invoked)
  /\ scen = 6 => (last.outcome = "hit" /\ last.ret = Obj(9) /\ ~last.invoked)

\* C7, amended: the third call evicts the entry for 2, the fourth call is a
\* miss that evicts the entry for 3, and the fifth call square(3) is a miss
\* that invokes the function and returns 9.
C7_FifthCallIsMiss ==
  /\ scen = 4 => KeyOf(2) \notin Keys(w[last.h].cache)
  /\ scen = 5 => (/\ last.outcome = "miss" /\ last.invoked
                  /\ KeyOf(3) \notin Keys(w[last.h].cache))
  /\ scen = 6 => (last.outcome = "miss" /\ last.ret = Obj(9) /\ last.invoked)

C7_Witness == scen = 6 /\ last.op = "call" /\ last.arg = 3

\* C8 as stated: after the example's five calls, a flush and a re-attach,
\* square(4) is a hit returning 16 without invoking the function.
C8_ReattachHitsFour ==
  scen = 9 => (last.outcome = "hit" /\ last.ret = Obj(16) /\ ~last.invoked)

\* C8, amended: after the example's five calls, a flush and a re-attach, the
\* new cache holds exactly the entries for 2 and 3, and square(4) is a miss
\* that invokes the function and returns 16.
C8_ReattachMissesFour ==
  /\ scen = 8 => Keys(w[last.h].cache) = {KeyOf(2), KeyOf(3)}
  /\ scen = 9 => (last.outcome = "miss" /\ last.ret = Obj(16) /\ last.invoked)

C8_Witness == scen = 9 /\ last.op = "call" /\ last.arg = 4

\* C9: when the wrapped function raises on a miss, the call raises the same
\* error and the cache (keys, values, order) is left as it was.
C9_RaiseLeavesCache ==
  [][\A h \in Handles, x \in Args :
       (/\ w[h].attached
        /\ KeyOf(x) \notin Keys(w[h].cache)
        /\ Func(w[h].func, <<x>>).raised
        /\ last'.op = "call" /\ last'.h = h /\ last'.arg = x)
       => (/\ last'.outcome = "raise"
           /\ last'.exc = Func(w[h].func, <<x>>).exc
           /\ w'[h].cache = w[h].cache)]_vars

\* The function raised on a miss while the cache was full.
C9_Witness ==
  /\ last.op = "call" /\ last.outcome = "raise"
  /\ Len(w[last.h].cache) >= last.func.max_size

\* C10: an interruption of function_setup on a changed fingerprint leaves the
\* database as it was before, or as the completed function_setup leaves it.
C10_ReconcileAtomic ==
  (/\ last.op = "interrupt"
   /\ prevDb.hashes[last.func.name] # NoHash
   /\ prevDb.hashes[last.func.name] # CurrentHash(last.func))
  => db \in {prevDb, function_setup(prevDb, last.func)}

Persisted(cache, rows, blob_type) ==
  \A i \in 1..Len(cache) :
    /\ cache[i].key \in DOMAIN rows
    /\ rows[cache[i].key] = to_blob(cache[i].val, blob_type)

\* C12: an attach with a value kind the BLOB conversion does not support
\* fails, and no wrapper with such a kind is ever attached.
C12_UnsupportedKindRejected ==
  /\ (last.op = "attach" /\ last.func.blob_type \notin SupportedKinds)
       => last.outcome = "error"
  /\ \A h \in Handles :
       w[h].attached => w[h].func.blob_type \in SupportedKinds

\* C13: an attach of a function whose source cannot be retrieved fails with
\* an error, attaches no wrapper and leaves the database as it was.
C13_NoSourceFailsClosed ==
  (last.op = "attach" /\ last.func.body = NoSource)
  => (/\ last.outcome = "error" /\ last.exc = "OSError"
      /\ ~w[last.h].attached
      /\ db = prevDb)

\* Such an attach on a database holding another function's hash and rows.
C13_Witness ==
  /\ last.op = "attach" /\ last.func.body = NoSource
  /\ db.hashes[last.func.name] # NoHash
  /\ DOMAIN db.tables[last.func.name].rows # {}

\* C14: a flush during which the database cannot be opened once succeeds on
\* its second attempt and persists the cache; a flush fails with the store's
\* error only when the second attempt fails too.
C14_FlushRetriesOnce ==
  (last.op = "flush" /\ ~save_raises(w[last.h].cache, last.func.blob_type))
  => (/\ last.arg = 1 =>
            (/\ last.outcome = "ok"
             /\ Persisted(w[last.h].cache, db.tables[last.func.name].rows,
                          last.func.blob_type))
      /\ last.arg = 2 =>
            (last.outcome = "error" /\ last.exc = "OperationalError"))

\* C20: when the INSERT of a cache entry raises during a flush, the flush
\* raises that error and the function's rows are those that function_setup
\* left before the first INSERT.
C20_FlushAllOrNothing ==
  (/\ last.op \in {"flush", "exit"} /\ last.arg = 0
   /\ save_raises(w[last.h].cache, last.func.blob_type))
  => (/\ last.outcome = "error" /\ last.exc = "ProgrammingError"
      /\ db.tables[last.func.name].rows =
           function_setup(prevDb, last.func).tables[last.func.name].rows)

\* A flush that failed on its second entry, after the first was written.
C20_Witness ==
  /\ last.op = "flush" /\ last.arg = 0 /\ last.outcome = "error"
  /\ FirstFailure(w[last.h].cache, last.func.blob_type) = 2
  /\ w[last.h].cache[1].key \notin DOMAIN db.tables[last.func.name].rows
  /\ DOMAIN db.tables[last.func.name].rows # {}

\* C15: a hit on k leaves k as the last (most recently used) entry, and
\* when the cache holds at least two entries the miss that directly follows
\* the hit leaves k in the cache.
C15_HitMakesMostRecent ==
  [][\A h \in Handles :
       /\ (last'.op = "call" /\ last'.h = h /\ last'.outcome = "hit")
            => w'[h].cache[Len(w'[h].cache)].key = KeyOf(last'.arg)
       /\ (/\ last.op = "call" /\ last.h = h /\ last.outcome = "hit"
           /\ Len(w[h].cache) >= 2
           /\ last'.op = "call" /\ last'.h = h /\ last'.outcome = "miss")
            => KeyOf(last.arg) \in Keys(w'[h].cache)]_vars

\* A miss right after a hit on k evicted another entry and k is now the
\* oldest of a full cache.
C15_Witness ==
  /\ last.op = "call" /\ last.outcome = "miss"
  /\ prev.op = "call" /\ prev.outcome = "hit" /\ prev.h = last.h
  /\ Len(w[last.h].cache) = 2 /\ last.func.max_size = 2
  /\ w[last.h].cache[1].key = KeyOf(prev.arg)

\* C16: while a key loaded at attach and not accessed since is in the
\* cache, a call evicts nothing but the first such key in load order.
C16_LoadedEvictedFirst ==
  [][\A h \in Handles :
       (last'.op = "call" /\ last'.h = h /\ untouched # <<>>)
       => (Keys(w[h].cache) \ Keys(w'[h].cache)) \subseteq {untouched[1]}]_vars

\* A miss evicted a loaded key while a key hit in this run and another
\* loaded key stay in the cache.
C16_Witness ==
  /\ last.op = "call" /\ last.outcome = "miss"
  /\ prev.op = "call" /\ prev.outcome = "hit" /\ prev.h = last.h
  /\ KeyOf(prev.arg) \in Keys(w[last.h].cache)
  /\ untouched # <<>>
  /\ Len(untouched) < Len(w[last.h].cache) - 1

\* C18: a flush or exit that finds its own fingerprint stored keeps every
\* row whose key is not in the cache, with its value, and adds or replaces
\* only the rows of the cached keys; no step that keeps the stored
\* fingerprint removes a row.
C18_FlushOnlyUpserts ==
  [][\A n \in Names :
       LET rows == db.tables[n].rows
           rows2 == db'.tables[n].rows
       IN /\ (db'.hashes[n] = db.hashes[n]) => (DOMAIN rows \subseteq DOMAIN rows2)
          /\ \A h \in Handles :
               (/\ last'.op \in {"flush", "exit"} /\ last'.h = h
                /\ last'.outcome = "ok"
                /\ w[h].func.name = n
                /\ db.hashes[n] = CurrentHash(w[h].func))
               => (/\ DOMAIN rows2 = DOMAIN rows \cup Keys(w[h].cache)
                   /\ \A k \in DOMAIN rows \ Keys(w[h].cache) : rows2[k] = rows[k])]_vars

\* After a flush the table holds more rows than max_size, one of them for
\* a key that is no longer in the cache.
C18_Witness ==
  /\ last.op = "flush" /\ last.outcome = "ok"
  /\ Cardinality(DOMAIN db.tables[last.func.name].rows) > last.func.max_size
  /\ db # prevDb
  /\ DOMAIN db.tables[last.func.name].rows \ Keys(w[last.h].cache) # {}

\* C17: two calls in a row with the same keyword mapping derive the same
\* key in whatever order the keywords are written: the second is a hit.
C17_KeywordOrderIrrelevant ==
  [][\A h \in Handles :
       (/\ last.op = "callkw" /\ last.h = h /\ last.outcome \in {"hit", "miss"}
        /\ last'.op = "callkw" /\ last'.h = h /\ last'.arg = last.arg)
       => last'.outcome = "hit"]_vars

\* C19: every row of a function's table is the encoded result, for the
\* row's key, of the function whose fingerprint the Hashes table records
\* for that name; without a recorded fingerprint the table has no rows.
C19_RowsMatchStoredHash ==
  \A n \in Names :
    LET rows == db.tables[n].rows IN
    IF db.hashes[n] = NoHash THEN DOMAIN rows = {}
    ELSE \E f \in Funcs \cup FaultFuncs :
           /\ f.name = n /\ CurrentHash(f) = db.hashes[n]
           /\ \A k \in DOMAIN rows :
                \E x \in Args :
                  /\ k = KeyOf(x)
                  /\ rows[k] = to_blob(Func(f, <<x>>).val, f.blob_type)

\* Both wrappers are attached with different functions, and the one whose
\* fingerprint was not the recorded one has just flushed its entries over
\* a table that held rows of the other.
C19_Witness ==
  /\ \A h \in Handles : w[h].attached
  /\ w["w1"].func # w["w2"].func
  /\ last.op = "flush"
  /\ prevDb.hashes[last.func.name] # CurrentHash(last.func)
  /\ DOMAIN prevDb.tables[last.func.name].rows # {}
  /\ DOMAIN db.tables[last.func.name].rows # {}

====
